---- MODULE Spec2Model ----
(***************************************************************************)
(* Model of the "On This Day" chronology index (chancehouston/ATW):        *)
(*   src/src/utils.py        date extractor, catalogue store, matcher      *)
(*   src/src/fetch_videos.py ingestion run                                 *)
(*   src/update_playlist.py, src/post_to_reddit.py   query runs            *)
(*                                                                         *)
(* Strings whose characters matter (stored dates) are sequences of         *)
(* character codes, so that slicing, formatting, parsing and Python's      *)
(* string ordering are computed as the code computes them.                 *)
(***************************************************************************)
EXTENDS Integers, Sequences, FiniteSets, TLC

VARIABLES
    title, config, extracted,            \* date extractor: input title, config, result
    videos_db, month, day, matching,     \* calendar matcher: catalogue, query, result
    primary, backup,                     \* data/videos.json and data/videos.json.backup
    wpc, wdata,                          \* save_videos_db in progress: position, data
    now,                                 \* datetime.now()
    hist,                                \* completed calls of the store, oldest first
    fpc, videos, page_count,             \* fetch_videos.main: position, videos, pages
    delivered, errored,                  \* entries the source delivered; HttpError seen
    run,                                 \* the ingestion run: number, file at its start, exit
    qrun,                                \* the last query run since the ingestion run
    features, today,                     \* config.yaml features; get_today_date()
    remote,                              \* hosting service: today's playlist; forum: posts
    calls,                               \* external calls made, oldest first
    pub                                  \* the publish run: script, position, locals, exit

extractVars == <<title, config, extracted>>
matchVars == <<videos_db, month, day, matching>>
storeVars == <<primary, backup, wpc, wdata, now, hist>>
fetchVars == <<fpc, videos, page_count, delivered, errored, run>>
publishVars == <<features, today, remote, calls, pub>>
vars == <<extractVars, matchVars, storeVars, fetchVars, qrun, publishVars>>

(***************************************************************************)
(* Bounds of the model.                                                    *)
(***************************************************************************)
MaxTitleLen == 2      \* tokens in a title
MaxPatterns == 2      \* strict patterns in date_parsing.title_patterns
MaxVideos == 3        \* records in a catalogue handed to the matcher
MaxOps == 3           \* calls of the catalogue store in one behaviour
MaxPages == 2         \* pages the video source serves in one ingestion run
MaxRuns == 1          \* ingestion runs in one behaviour
MaxLeftover == 2      \* items in today's playlist when a publish run starts
MaxIds == 3           \* video ids handed to add_videos_to_playlist

(***************************************************************************)
(* Characters and strings.                                                 *)
(***************************************************************************)
Dash == 45
Colon == 58

Digit(n) == 48 + n
IsDigit(c) == c \in 48..57
DigitVal(c) == c - 48

\* The decimal digits of n, unpadded: glibc's %Y does not pad the year.
RECURSIVE DecDigits(_)
DecDigits(n) == IF n < 10 THEN <<Digit(n)>>
                ELSE DecDigits(n \div 10) \o <<Digit(n % 10)>>

Pad2(n) == <<Digit(n \div 10), Digit(n % 10)>>

\* Python's str.__lt__: code-point lexicographic order, a proper prefix is smaller.
RECURSIVE StrLess(_, _)
StrLess(s, t) ==
    IF t = <<>> THEN FALSE
    ELSE IF s = <<>> THEN TRUE
    ELSE IF Head(s) # Head(t) THEN Head(s) < Head(t)
    ELSE StrLess(Tail(s), Tail(t))

\* s[:n]
Slice(s, n) == SubSeq(s, 1, IF Len(s) < n THEN Len(s) ELSE n)

(***************************************************************************)
(* Calendar dates (datetime objects, date part).                           *)
(***************************************************************************)
NoDate == [ok |-> FALSE, year |-> 0, month |-> 0, day |-> 0]
Date(y, m, d) == [ok |-> TRUE, year |-> y, month |-> m, day |-> d]

IsLeap(y) == (y % 4 = 0) /\ ((y % 100 # 0) \/ (y % 400 = 0))

DaysInMonth(y, m) ==
    IF m = 2 THEN (IF IsLeap(y) THEN 29 ELSE 28)
    ELSE IF m \in {4, 6, 9, 11} THEN 30 ELSE 31

\* datetime(y, m, d) raises ValueError outside these ranges.
ValidDate(y, m, d) ==
    /\ y \in 1..9999
    /\ m \in 1..12
    /\ d \in 1..DaysInMonth(y, m)

\* date_obj.strftime('%Y-%m-%d')
strftime_Ymd(date) ==
    DecDigits(date.year) \o <<Dash>> \o Pad2(date.month) \o <<Dash>> \o Pad2(date.day)

Num2(s, i) == 10 * DigitVal(s[i]) + DigitVal(s[i + 1])
Num4(s, i) == 100 * Num2(s, i) + Num2(s, i + 2)

\* The time part "HH:MM" or "HH:MM:SS" starting at position i of s.
ValidTime(s, i) ==
    /\ Len(s) - i + 1 \in {5, 8}
    /\ IsDigit(s[i]) /\ IsDigit(s[i + 1]) /\ s[i + 2] = Colon
    /\ IsDigit(s[i + 3]) /\ IsDigit(s[i + 4])
    /\ Num2(s, i) < 24 /\ Num2(s, i + 3) < 60
    /\ Len(s) - i + 1 = 8 =>
          /\ s[i + 5] = Colon /\ IsDigit(s[i + 6]) /\ IsDigit(s[i + 7])
          /\ Num2(s, i + 6) < 60

\* datetime.fromisoformat(s): "YYYY-MM-DD", optionally one separator character and
\* a time; ok = FALSE stands for ValueError.
fromisoformat(s) ==
    IF /\ Len(s) \in {10, 16, 19}
       /\ \A i \in {1, 2, 3, 4, 6, 7, 9, 10} : IsDigit(s[i])
       /\ s[5] = Dash /\ s[8] = Dash
       /\ ValidDate(Num4(s, 1), Num2(s, 6), Num2(s, 9))
       /\ Len(s) > 10 => ValidTime(s, 12)
    THEN Date(Num4(s, 1), Num2(s, 6), Num2(s, 9))
    ELSE NoDate

(***************************************************************************)
(* JSON values of the fields the code reads.                               *)
(***************************************************************************)
None == [t |-> "null", s |-> <<>>]
Str(s) == [t |-> "str", s |-> s]
\* A JSON number, kept as its decimal digits: json.load makes it an int.
Number(n) == [t |-> "num", s |-> DecDigits(n)]

\* Python truthiness of a JSON value (None, '' and 0 are falsy).
Truthy(v) ==
    \/ v.t = "str" /\ v.s # <<>>
    \/ v.t = "num" /\ v.s # <<Digit(0)>>

(***************************************************************************)
(* Titles and strict patterns.  A title is a sequence of tokens: a run of  *)
(* plain text, or a numeric date written "a/b/y".  A strict pattern is a   *)
(* strptime format string: literal text and at most one date directive     *)
(* group, "%m/%d/%Y" (mdY) or "%d/%m/%Y" (dmY).                             *)
(***************************************************************************)
Text(w) == [k |-> "text", w |-> w, a |-> 0, b |-> 0, y |-> 0]
Num(a, b, y) == [k |-> "num", w |-> "", a |-> a, b |-> b, y |-> y]

Lit(w) == [k |-> "lit", w |-> w]
Dir(d) == [k |-> "dir", w |-> d]

PrivateTitle == <<Text("Private video")>>
DeletedTitle == <<Text("Deleted video")>>

\* The date one directive group reads from one token; NoDate is ValueError.
DirectiveDate(tok, d) ==
    IF tok.k # "num" THEN NoDate
    ELSE IF d = "mdY" /\ ValidDate(tok.y, tok.a, tok.b) THEN Date(tok.y, tok.a, tok.b)
    ELSE IF d = "dmY" /\ ValidDate(tok.y, tok.b, tok.a) THEN Date(tok.y, tok.b, tok.a)
    ELSE NoDate

ElementMatches(tok, pel) ==
    IF pel.k = "lit" THEN tok.k = "text" /\ tok.w = pel.w
    ELSE DirectiveDate(tok, pel.w).ok

\* datetime.strptime(title, pattern): the whole title must match the pattern;
\* fields no directive sets default to 1900-01-01.
strptime(ttl, pattern) ==
    IF /\ Len(ttl) = Len(pattern)
       /\ \A i \in 1..Len(ttl) : ElementMatches(ttl[i], pattern[i])
    THEN LET dirs == {i \in 1..Len(pattern) : pattern[i].k = "dir"}
         IN  IF dirs = {} THEN Date(1900, 1, 1)
             ELSE LET i == CHOOSE j \in dirs : \A l \in dirs : j <= l
                  IN  DirectiveDate(ttl[i], pattern[i].w)
    ELSE NoDate

\* dateutil.parser.parse(title, fuzzy=True): unknown text is skipped; "a/b/y" is
\* read month first unless a cannot be a month; no date found, or an impossible
\* date, raises (NoDate).  Titles of the model hold at most one date token.
fuzzy_parse(ttl) ==
    LET nums == {i \in 1..Len(ttl) : ttl[i].k = "num"}
    IN  IF nums = {} THEN NoDate
        ELSE LET tok == ttl[CHOOSE j \in nums : \A l \in nums : j <= l]
                 mth == IF tok.a > 12 THEN tok.b ELSE tok.a
                 dy == IF tok.a > 12 THEN tok.a ELSE tok.b
             IN  IF ValidDate(tok.y, mth, dy) THEN Date(tok.y, mth, dy) ELSE NoDate

\* The loop of parse_date_from_title over patterns[i..]: the first pattern that
\* parses returns; ValueError moves on.
\* Variant: the loop does not return at the first success, so the last pattern
\* that parses wins.
RECURSIVE TryPatterns_LastWins(_, _, _)
TryPatterns_LastWins(ttl, patterns, i) ==
    IF i > Len(patterns) THEN NoDate
    ELSE IF TryPatterns_LastWins(ttl, patterns, i + 1).ok
         THEN TryPatterns_LastWins(ttl, patterns, i + 1)
         ELSE strptime(ttl, patterns[i])

RECURSIVE TryPatterns(_, _, _)
TryPatterns(ttl, patterns, i) ==
    IF i > Len(patterns) THEN NoDate
    ELSE IF strptime(ttl, patterns[i]).ok THEN strptime(ttl, patterns[i])
    ELSE TryPatterns(ttl, patterns, i + 1)

\* parse_date_from_title(title, config): date is the returned datetime (NoDate is
\* None); fuzzy records whether dateutil was called.  No key of config other than
\* date_parsing.title_patterns is read.
parse_date_from_title(ttl, cfg) ==
    LET strict == TryPatterns(ttl, cfg.title_patterns, 1)
    IN  IF strict.ok THEN [date |-> strict, fuzzy |-> FALSE]
        ELSE [date |-> fuzzy_parse(ttl), fuzzy |-> TRUE]

(***************************************************************************)
(* Calendar matcher.                                                       *)
(***************************************************************************)
\* list.sort(key=...) on the stored strings: stable, ascending in str order.
\* SortedInsert puts v after every element whose key is not greater.
\* Variant: the sort is left out and the matches stay in catalogue order.
SortedInsert_NoSort(sorted, v) == sorted \o <<v>>

RECURSIVE SortedInsert(_, _)
SortedInsert(sorted, v) ==
    IF sorted = <<>> THEN <<v>>
    ELSE IF StrLess(v.recording_date.s, Head(sorted).recording_date.s)
         THEN <<v>> \o sorted
         ELSE <<Head(sorted)>> \o SortedInsert(Tail(sorted), v)

RECURSIVE SortByRecordingDate(_)
SortByRecordingDate(vs) ==
    IF vs = <<>> THEN <<>>
    ELSE SortedInsert(SortByRecordingDate(SubSeq(vs, 1, Len(vs) - 1)), vs[Len(vs)])

\* datetime.fromisoformat(recording_date) raises TypeError when the truthy stored
\* value is not a str; lines 139-140 catch ValueError only.
RaisesTypeError(video) ==
    Truthy(video.recording_date) /\ video.recording_date.t # "str"

\* The test of one record in the loop of get_videos_for_date.
MatchesDate(video, m, d) ==
    /\ Truthy(video.recording_date)
    /\ video.recording_date.t = "str"
    /\ fromisoformat(video.recording_date.s).ok
    /\ fromisoformat(video.recording_date.s).month = m
    /\ fromisoformat(video.recording_date.s).day = d

RECURSIVE SelectMatching(_, _, _)
SelectMatching(vs, m, d) ==
    IF vs = <<>> THEN <<>>
    ELSE (IF MatchesDate(Head(vs), m, d) THEN <<Head(vs)>> ELSE <<>>)
         \o SelectMatching(Tail(vs), m, d)

\* get_videos_for_date(videos_db, month, day): the sorted matches, or raised when
\* the loop reaches a record whose stored value makes fromisoformat raise TypeError.
get_videos_for_date(db, m, d) ==
    IF \E i \in 1..Len(db.videos) : RaisesTypeError(db.videos[i])
    THEN [raised |-> TRUE, videos |-> <<>>]
    ELSE [raised |-> FALSE, videos |-> SortByRecordingDate(SelectMatching(db.videos, m, d))]

(***************************************************************************)
(* Catalogue store.  channel_info keeps the keys the properties read; a key *)
(* that is not set is -1 (total_videos) and None is 0 (last_updated).      *)
(* A file is the sequence of chunks json.dump has written to it.           *)
(***************************************************************************)
\* The structure load_videos_db returns when data/videos.json does not exist.
Placeholder == [channel_id |-> "", total_videos |-> -1, last_updated |-> 0]

\* A VideoRecord: the keys the code reads back (description, url and thumbnail are
\* display strings no operation reads back).
Video(id, ttl, up, rec) ==
    [video_id |-> id, title |-> ttl, upload_date |-> up, recording_date |-> rec]

NoVideo == [video_id |-> 0, title |-> <<>>, upload_date |-> None, recording_date |-> None]
NoCatalogue == [channel_info |-> Placeholder, videos |-> <<>>]

Chunk(tag, ci, vid) == [tag |-> tag, ci |-> ci, vid |-> vid]
OpenBrace == Chunk("{", Placeholder, NoVideo)
CloseBrace == Chunk("}", Placeholder, NoVideo)

NoFile == [exists |-> FALSE, text |-> <<>>]
File(text) == [exists |-> TRUE, text |-> text]

\* Variant: the videos are written last to first.
json_dump_Reversed(data) ==
    <<OpenBrace, Chunk("channel_info", data.channel_info, NoVideo)>>
    \o [i \in 1..Len(data.videos) |->
          Chunk("video", Placeholder, data.videos[Len(data.videos) + 1 - i])]
    \o <<CloseBrace>>

\* json.dump(data, f, indent=2, ensure_ascii=False): the text, chunk by chunk.
json_dump(data) ==
    <<OpenBrace, Chunk("channel_info", data.channel_info, NoVideo)>>
    \o [i \in 1..Len(data.videos) |-> Chunk("video", Placeholder, data.videos[i])]
    \o <<CloseBrace>>

\* json.load(f): ok = FALSE is json.JSONDecodeError (an empty or cut-off text).
json_load(text) ==
    IF /\ Len(text) >= 3
       /\ text[1] = OpenBrace
       /\ text[2].tag = "channel_info"
       /\ \A i \in 3..(Len(text) - 1) : text[i].tag = "video"
       /\ text[Len(text)] = CloseBrace
    THEN [ok |-> TRUE,
          data |-> [channel_info |-> text[2].ci,
                    videos |-> [i \in 1..(Len(text) - 3) |-> text[i + 2].vid]]]
    ELSE [ok |-> FALSE, data |-> [channel_info |-> Placeholder, videos |-> <<>>]]

\* Variant: no os.path.exists test, so a missing file fails in open().
load_videos_db_NoExistsTest(f) ==
    [raised |-> ~f.exists \/ ~json_load(f.text).ok, data |-> json_load(f.text).data]

\* load_videos_db() reading the file f: raised is the Exception of line 66.
load_videos_db(f) ==
    IF ~f.exists
    THEN [raised |-> FALSE, data |-> [channel_info |-> Placeholder, videos |-> <<>>]]
    ELSE [raised |-> ~json_load(f.text).ok, data |-> json_load(f.text).data]

\* One completed call of the store.  arg is the catalogue handed to save; seen is
\* the primary file a load read (for a save: the file it replaced); data and
\* raised are a load's outcome; conc says a load ran while a save was writing, with
\* old and new the primary file before that save and the text that save writes.
Call(op, arg, seen, res, conc, old, new) ==
    [op |-> op, arg |-> arg, seen |-> seen, raised |-> res.raised, data |-> res.data,
     conc |-> conc, old |-> old, new |-> new]

NoResult == [raised |-> FALSE, data |-> NoCatalogue]

\* save_videos_db(data), lines 70-79: stamp last_updated, open(db_path, 'w').
\* Opening for writing truncates the file at once.
save_open(data) ==
    /\ wpc = "idle"
    /\ wdata' = [arg |-> data,
                 out |-> [data EXCEPT !.channel_info.last_updated = now],
                 old |-> primary]
    /\ now' = now + 1
    /\ primary' = File(<<>>)
    /\ wpc' = "writing"
    /\ UNCHANGED backup

\* json.dump, line 80: the buffer is flushed to the file one chunk further.
save_flush ==
    /\ wpc = "writing"
    /\ Len(primary.text) < Len(json_dump(wdata.out))
    /\ primary' = File(Append(primary.text, json_dump(wdata.out)[Len(primary.text) + 1]))
    /\ UNCHANGED <<backup, wpc, wdata, now>>

\* Leaving the with block, line 80: the rest is flushed and the file closed.
save_close ==
    /\ wpc = "writing"
    /\ primary' = File(json_dump(wdata.out))
    /\ wpc' = "idle"
    /\ UNCHANGED <<backup, wdata, now>>

\* Variant: the copy is left out and the backup stays as it was.
create_backup_NoCopy(f, b) == b

\* create_backup(file_path), lines 214-218: shutil.copy2 of file f onto backup b.
create_backup(f, b) == IF f.exists THEN f ELSE b

(***************************************************************************)
(* Calls of the store by a writer and a reader (SpecStore).                *)
(***************************************************************************)
SaveOpen(data) ==
    /\ Len(hist) < MaxOps
    /\ save_open(data)
    /\ UNCHANGED hist

SaveFlush == save_flush /\ UNCHANGED hist

SaveClose ==
    /\ save_close
    /\ hist' = Append(hist, Call("save", wdata.arg, wdata.old, NoResult, FALSE, NoFile, NoFile))

\* load_videos_db(), lines 48-66, by a reader that may run while a save writes.
Load ==
    /\ Len(hist) < MaxOps
    /\ hist' = Append(hist,
                 Call("load", NoCatalogue, primary, load_videos_db(primary), wpc # "idle",
                      IF wpc # "idle" THEN wdata.old ELSE NoFile,
                      IF wpc # "idle" THEN File(json_dump(wdata.out)) ELSE NoFile))
    /\ UNCHANGED <<primary, backup, wpc, wdata, now>>

CreateBackup ==
    /\ wpc = "idle"
    /\ Len(hist) < MaxOps
    /\ backup' = create_backup(primary, backup)
    /\ hist' = Append(hist, Call("backup", NoCatalogue, primary, NoResult, FALSE, NoFile, NoFile))
    /\ UNCHANGED <<primary, wpc, wdata, now>>

(***************************************************************************)
(* Ingestion: fetch_all_videos_from_playlist and fetch_videos.main.        *)
(***************************************************************************)
\* A playlistItems entry: snippet.resourceId.videoId, snippet.title,
\* snippet.publishedAt.
Entry(id, ttl, published) == [id |-> id, title |-> ttl, publishedAt |-> published]

\* Variant: only the private marker is tested.
IsSentinel_PrivateOnly(item) == item.title = PrivateTitle

\* Line 132.
IsSentinel(item) == item.title = PrivateTitle \/ item.title = DeletedTitle

\* Variant: the configured value is not looked at.
UseUploadDateFallback_Always(cfg) == TRUE

\* config.get('date_parsing', {}).get('use_upload_date_fallback', True)
UseUploadDateFallback(cfg) == cfg.use_upload_date_fallback # "false"

\* Lines 135-158: the record built from one entry that is kept.
video_data(item, cfg) ==
    LET upload_date == Str(Slice(item.publishedAt, 10))
        date_obj == parse_date_from_title(item.title, cfg).date
    IN  Video(item.id, item.title, upload_date,
              IF date_obj.ok THEN Str(strftime_Ymd(date_obj))
              ELSE IF UseUploadDateFallback(cfg) THEN upload_date
              ELSE None)

\* Lines 128-160: the loop over the items of one page.
RECURSIVE ProcessItems(_, _)
ProcessItems(items, cfg) ==
    IF items = <<>> THEN <<>>
    ELSE (IF IsSentinel(Head(items)) THEN <<>> ELSE <<video_data(Head(items), cfg)>>)
         \o ProcessItems(Tail(items), cfg)

\* Lines 217-227: the catalogue main builds; save stamps last_updated again.
BuildCatalogue(vs) ==
    [channel_info |-> [channel_id |-> "UC", total_videos |-> Len(vs), last_updated |-> now],
     videos |-> vs]

NoRun == [n |-> 0, start |-> NoFile, exit |-> "none"]
NoQuery == [kind |-> "none", seen |-> NoFile, month |-> 1, day |-> 1,
            exit |-> "none", today_videos |-> <<>>]
FetchUnused ==
    /\ fpc = "idle" /\ videos = <<>> /\ page_count = 0 /\ delivered = <<>>
    /\ errored = FALSE /\ run = NoRun /\ qrun = NoQuery

\* main, lines 181-208, and lines 108-110: an ingestion run starts.
FetchStart ==
    /\ fpc = "idle" /\ wpc = "idle"
    /\ run.n < MaxRuns
    /\ fpc' = "paging"
    /\ videos' = <<>> /\ page_count' = 0 /\ delivered' = <<>> /\ errored' = FALSE
    /\ run' = [n |-> run.n + 1, start |-> primary, exit |-> "running"]
    /\ qrun' = NoQuery
    /\ UNCHANGED storeVars

\* Lines 116-168: one page is served and its items are processed; more says
\* whether the response carries a nextPageToken.
FetchPage(items, more) ==
    /\ fpc = "paging"
    /\ page_count < MaxPages
    /\ more => page_count + 1 < MaxPages
    /\ page_count' = page_count + 1
    /\ videos' = videos \o ProcessItems(items, config)
    /\ delivered' = delivered \o items
    /\ fpc' = IF more THEN "paging" ELSE "fetched"
    /\ UNCHANGED <<errored, run, storeVars, qrun>>

\* Lines 170-172: request.execute() raises HttpError; the error is logged and the
\* loop left with the videos fetched so far.
FetchHttpError ==
    /\ fpc = "paging"
    /\ errored' = TRUE
    /\ fpc' = "fetched"
    /\ UNCHANGED <<videos, page_count, delivered, run, storeVars, qrun>>

\* main, lines 211-214.
MainBackup ==
    /\ fpc = "fetched"
    /\ backup' = IF primary.exists THEN create_backup(primary, backup) ELSE backup
    /\ fpc' = "backed_up"
    /\ UNCHANGED <<primary, wpc, wdata, now, hist, videos, page_count, delivered,
                   errored, run, qrun>>

\* main, lines 217-231, up to the open() in save_videos_db.
MainSaveOpen ==
    /\ fpc = "backed_up"
    /\ save_open(BuildCatalogue(videos))
    /\ fpc' = "saving"
    /\ UNCHANGED <<hist, videos, page_count, delivered, errored, run, qrun>>

MainSaveFlush ==
    /\ fpc = "saving"
    /\ save_flush
    /\ UNCHANGED <<hist, fetchVars, qrun>>

\* The save completes and main runs to its end, lines 233-252: exit status 0.
MainSaveClose ==
    /\ fpc = "saving"
    /\ save_close
    /\ fpc' = "idle"
    /\ run' = [run EXCEPT !.exit = "ok"]
    /\ UNCHANGED <<hist, videos, page_count, delivered, errored, qrun>>

(***************************************************************************)
(* Query runs: update_playlist.main and post_to_reddit.main up to the      *)
(* list of today's videos.  Neither writes a catalogue file.  Scheduled    *)
(* runs do not overlap: a query run starts when no ingestion run is going. *)
(***************************************************************************)
\* update_playlist.main lines 239-256, post_to_reddit.main lines 126-143.
\* exit "error" is an exception of load_videos_db or get_videos_for_date reaching
\* __main__ (exit 1).
QueryRun(kind, m, d) ==
    /\ fpc = "idle" /\ wpc = "idle"
    /\ qrun' = [kind |-> kind, seen |-> primary, month |-> m, day |-> d,
                exit |->
                    IF load_videos_db(primary).raised THEN "error"
                    ELSE IF get_videos_for_date(load_videos_db(primary).data, m, d).raised
                         THEN "error" ELSE "ok",
                today_videos |->
                    IF load_videos_db(primary).raised THEN <<>>
                    ELSE get_videos_for_date(load_videos_db(primary).data, m, d).videos]
    /\ UNCHANGED <<storeVars, fetchVars>>

(***************************************************************************)
(* Publish runs: update_playlist.main and post_to_reddit.main with their   *)
(* external calls.  remote is the playlist that carries today's title at   *)
(* the hosting service (whether it exists, whether it is among the 50      *)
(* playlists the list call returns, its items as video ids in order) and   *)
(* the number of posts at the forum.  calls logs every external call with  *)
(* its outcome; ok = FALSE is HttpError (or the client's exception).  The  *)
(* texts of the playlist and of the post are not modelled.                 *)
(***************************************************************************)
ExtCall(op, arg, ok) == [op |-> op, arg |-> arg, ok |-> ok]

NoPub == [kind |-> "none", pc |-> "idle", today_videos |-> <<>>, video_ids |-> <<>>,
          item_ids |-> 0, i |-> 0, added |-> 0, exit |-> "none"]
NoRemote == [exists |-> FALSE, listed |-> FALSE, items |-> <<>>, posts |-> 0]
NoFeatures == [dry_run |-> "missing", create_playlist |-> "missing",
               post_to_reddit |-> "missing"]
PublishUnused ==
    /\ features = NoFeatures /\ today = <<1, 1>> /\ remote = NoRemote
    /\ calls = <<>> /\ pub = NoPub

\* Variant: the dry_run switch is not read.
dry_run_Ignored(f) == FALSE

\* config.get('features', {}).get('dry_run', False)
dry_run(f) == f.dry_run = "true"

\* config.get('features', {}).get('create_playlist', True)
create_playlist(f) == f.create_playlist # "false"

\* config.get('features', {}).get('post_to_reddit', True)
post_to_reddit(f) == f.post_to_reddit # "false"

\* The run returns, or an exception reaches __main__ (exit 1).
Ended(p, exit) == [p EXCEPT !.pc = "done", !.exit = exit]

\* Loading the catalogue and matching today, the same in both scripts: "error"
\* when load_videos_db or get_videos_for_date raises, "nothing" when the catalogue
\* is empty or no video matches today, else "videos".
TodayOutcome(f, td) ==
    LET l == load_videos_db(f) IN
    IF l.raised THEN "error"
    ELSE IF l.data.videos = <<>> THEN "nothing"
    ELSE IF get_videos_for_date(l.data, td[1], td[2]).raised THEN "error"
    ELSE IF get_videos_for_date(l.data, td[1], td[2]).videos = <<>> THEN "nothing"
    ELSE "videos"

TodayVideos(f, td) == get_videos_for_date(load_videos_db(f).data, td[1], td[2]).videos

\* update_playlist.main, lines 225-270: up to the first external call.
UpdateStart ==
    /\ pub.pc = "idle" /\ wpc = "idle"
    /\ LET out == TodayOutcome(primary, today)
           started == [NoPub EXCEPT !.kind = "update_playlist"]
           found == [started EXCEPT !.today_videos = TodayVideos(primary, today)] IN
       pub' = IF out = "error" THEN Ended(started, "error")
              ELSE IF out = "nothing" THEN Ended(started, "ok")
              ELSE IF dry_run(features) THEN Ended(found, "ok")
              ELSE IF ~create_playlist(features) THEN Ended(found, "ok")
              ELSE [found EXCEPT !.pc = "auth"]
    /\ UNCHANGED <<features, today, remote, calls>>

\* Line 274: get_authenticated_service().
Authenticate(ok) ==
    /\ pub.pc = "auth"
    /\ calls' = Append(calls, ExtCall("authenticate", 0, ok))
    /\ pub' = IF ok THEN [pub EXCEPT !.pc = "find"] ELSE Ended(pub, "error")
    /\ UNCHANGED <<features, today, remote>>

\* find_or_create_playlist, lines 95-143: the playlist with today's title is
\* found among the listed ones, or a new, empty one is created; HttpError is
\* raised again as Exception.
find_or_create_playlist(out) ==
    /\ pub.pc = "find"
    /\ LET found == remote.exists /\ remote.listed IN
       /\ out = "insert_error" => ~found
       /\ calls' = calls \o <<ExtCall("playlists.list", 0, out # "list_error")>>
                         \o (IF out = "list_error" \/ found THEN <<>>
                             ELSE <<ExtCall("playlists.insert", 0, out = "ok")>>)
       /\ remote' = IF out = "ok" /\ ~found
                    THEN [remote EXCEPT !.exists = TRUE, !.listed = TRUE, !.items = <<>>]
                    ELSE remote
       /\ pub' = IF out = "ok" THEN [pub EXCEPT !.pc = "clear"] ELSE Ended(pub, "error")
    /\ UNCHANGED <<features, today>>

\* main, line 299, reached when clear_playlist has returned.
ToAdd(p) ==
    [p EXCEPT !.pc = "add", !.item_ids = 0,
              !.video_ids = [k \in 1..Len(p.today_videos) |-> p.today_videos[k].video_id]]

\* clear_playlist, lines 155-172: the items are listed (one page holds them all);
\* HttpError is logged, line 181-182, and clear_playlist returns.
ClearList(ok) ==
    /\ pub.pc = "clear"
    /\ calls' = Append(calls, ExtCall("playlistItems.list", 0, ok))
    /\ pub' = IF ok /\ remote.items # <<>>
              THEN [pub EXCEPT !.pc = "deleting", !.item_ids = Len(remote.items)]
              ELSE ToAdd(pub)
    /\ UNCHANGED <<features, today, remote>>

\* clear_playlist, lines 175-176: the next listed item is deleted; HttpError is
\* logged, lines 181-182, and the items not yet deleted stay.
ClearDelete(ok) ==
    /\ pub.pc = "deleting"
    /\ calls' = Append(calls, ExtCall("playlistItems.delete", Head(remote.items), ok))
    /\ remote' = IF ok THEN [remote EXCEPT !.items = Tail(remote.items)] ELSE remote
    /\ pub' = IF ok /\ pub.item_ids > 1
              THEN [pub EXCEPT !.item_ids = pub.item_ids - 1]
              ELSE ToAdd(pub)
    /\ UNCHANGED <<features, today>>

\* Variant: a failed insert ends the loop.
AddVideo_AbortOnError(ok) ==
    /\ pub.pc = "add" /\ pub.i < Len(pub.video_ids)
    /\ calls' = Append(calls, ExtCall("playlistItems.insert", pub.video_ids[pub.i + 1], ok))
    /\ remote' = IF ok
                 THEN [remote EXCEPT !.items = Append(remote.items, pub.video_ids[pub.i + 1])]
                 ELSE remote
    /\ pub' = [pub EXCEPT !.i = IF ok THEN pub.i + 1 ELSE Len(pub.video_ids),
                          !.added = IF ok THEN pub.added + 1 ELSE pub.added]
    /\ UNCHANGED <<features, today>>

\* add_videos_to_playlist, lines 199-217: one turn of the loop.
AddVideo(ok) ==
    /\ pub.pc = "add" /\ pub.i < Len(pub.video_ids)
    /\ calls' = Append(calls, ExtCall("playlistItems.insert", pub.video_ids[pub.i + 1], ok))
    /\ remote' = IF ok
                 THEN [remote EXCEPT !.items = Append(remote.items, pub.video_ids[pub.i + 1])]
                 ELSE remote
    /\ pub' = [pub EXCEPT !.i = pub.i + 1,
                          !.added = IF ok THEN pub.added + 1 ELSE pub.added]
    /\ UNCHANGED <<features, today>>

\* add_videos_to_playlist, line 219: return added; main runs to its end.
AddReturn ==
    /\ pub.pc = "add" /\ pub.i = Len(pub.video_ids)
    /\ pub' = Ended(pub, "ok")
    /\ UNCHANGED <<features, today, remote, calls>>

\* post_to_reddit.main, lines 107-180: up to the first external call.
PostStart ==
    /\ pub.pc = "idle" /\ wpc = "idle"
    /\ LET out == TodayOutcome(primary, today)
           started == [NoPub EXCEPT !.kind = "post_to_reddit"]
           found == [started EXCEPT !.today_videos = TodayVideos(primary, today)] IN
       pub' = IF ~post_to_reddit(features) THEN Ended(started, "ok")
              ELSE IF out = "error" THEN Ended(started, "error")
              ELSE IF out = "nothing" THEN Ended(started, "ok")
              ELSE IF dry_run(features) THEN Ended(found, "ok")
              ELSE [found EXCEPT !.pc = "reddit_auth"]
    /\ UNCHANGED <<features, today, remote, calls>>

\* Lines 184-185: get_reddit_client(config) and reddit.user.me().
RedditAuth(ok) ==
    /\ pub.pc = "reddit_auth"
    /\ calls' = Append(calls, ExtCall("reddit.user.me", 0, ok))
    /\ pub' = IF ok THEN [pub EXCEPT !.pc = "submit"] ELSE Ended(pub, "error")
    /\ UNCHANGED <<features, today, remote>>

\* create_reddit_post, lines 66-98: subreddit.submit; any exception is raised
\* again as Exception.
create_reddit_post(ok) ==
    /\ pub.pc = "submit"
    /\ calls' = Append(calls, ExtCall("subreddit.submit", 0, ok))
    /\ remote' = IF ok THEN [remote EXCEPT !.posts = remote.posts + 1] ELSE remote
    /\ pub' = Ended(pub, IF ok THEN "ok" ELSE "error")
    /\ UNCHANGED <<features, today>>

(***************************************************************************)
(* Input domains.                                                          *)
(***************************************************************************)
SeqsUpTo(S, n) == UNION {[1..k -> S] : k \in 0..n}

Ymd(y, m, d) == strftime_Ymd(Date(y, m, d))

TextTokens == {Text("Road Trip - "), Text("Just a fun day!")}
NumTokens == {Num(3, 14, 2019), Num(3, 4, 2019), Num(14, 3, 2019), Num(2, 30, 2019)}

Titles ==
    {t \in SeqsUpTo(TextTokens \cup NumTokens, MaxTitleLen) :
        /\ t # <<>>
        /\ Cardinality({i \in 1..Len(t) : t[i].k = "num"}) <= 1}

Patterns ==
    { <<Dir("mdY")>>, <<Dir("dmY")>>, <<Lit("Road Trip - ")>>,
      <<Lit("Road Trip - "), Dir("mdY")>>, <<Lit("Road Trip - "), Dir("dmY")>> }

\* config.yaml as the code and the design read it: date_parsing.title_patterns,
\* date_parsing.use_upload_date_fallback ("missing" when the key is not set) and the
\* design's fuzzy-extraction switch.
Configs ==
    [title_patterns : SeqsUpTo(Patterns, MaxPatterns),
     use_upload_date_fallback : {"true", "false", "missing"},
     fuzzy_enabled : BOOLEAN]

\* Stored recording_date values: ISO dates as ingestion writes them, one with a
\* time part, and values that are absent, empty, not ISO dates or not strings.
StoredDates ==
    { Str(Ymd(2020, 1, 4)), Str(Ymd(2022, 1, 4)), Str(Ymd(2019, 1, 4)),
      Str(Ymd(2020, 2, 29)), Str(Ymd(2019, 2, 28)), Str(Ymd(2021, 3, 1)),
      Str(Ymd(2020, 1, 4) \o <<84>> \o Pad2(10) \o <<Colon>> \o Pad2(0) \o <<Colon>> \o Pad2(0)),
      Str(Ymd(2019, 2, 29)),
      Str(<<Digit(2), Digit(0), Digit(2), Digit(0), Dash, Digit(1), Dash, Digit(4)>>),
      Str(<<>>), None, Number(20200104) }

\* Catalogues handed to the matcher: the i-th record has video_id i.
Catalogues ==
    { [channel_info |-> Placeholder,
       videos |-> [i \in 1..Len(ds) |->
                     Video(i, <<Text("Just a fun day!")>>, Str(Ymd(2022, 6, 1)), ds[i])]] :
      ds \in SeqsUpTo(StoredDates, MaxVideos) }

Queries == { <<1, 4>>, <<2, 29>>, <<2, 28>>, <<3, 1>>, <<12, 31>> }

NotExtracted == [done |-> FALSE, date |-> NoDate, fuzzy |-> FALSE]
NotMatched == [done |-> FALSE, raised |-> FALSE, videos |-> <<>>]
NoConfig == [title_patterns |-> <<>>, use_upload_date_fallback |-> "missing",
             fuzzy_enabled |-> TRUE]

ExtractUnused == title = <<>> /\ config = NoConfig /\ extracted = NotExtracted
MatchUnused == videos_db = NoCatalogue /\ month = 1 /\ day = 1 /\ matching = NotMatched
NoSave == [arg |-> NoCatalogue, out |-> NoCatalogue, old |-> NoFile]
StoreUnused ==
    /\ primary = NoFile /\ backup = NoFile
    /\ wpc = "idle" /\ wdata = NoSave /\ now = 1 /\ hist = <<>>

\* Catalogues handed to save_videos_db, and the ones on disk at the start.
StoreVideo(i, rec) == Video(i, <<Text("Just a fun day!")>>, Str(Ymd(2022, 6, 1)), rec)
CatA == [channel_info |-> [channel_id |-> "UC", total_videos |-> 1, last_updated |-> 0],
         videos |-> <<StoreVideo(1, Str(Ymd(2020, 1, 4)))>>]
CatB == [channel_info |-> [channel_id |-> "UC", total_videos |-> 2, last_updated |-> 0],
         videos |-> <<StoreVideo(2, None), StoreVideo(1, Str(Ymd(2020, 1, 4)))>>]
CatEmpty == [channel_info |-> [channel_id |-> "UC", total_videos |-> 0, last_updated |-> 0],
             videos |-> <<>>]
CatOld == [channel_info |-> [channel_id |-> "UC", total_videos |-> 1, last_updated |-> 0],
           videos |-> <<StoreVideo(3, Str(Ymd(2019, 1, 4)))>>]
CatOlder == [channel_info |-> [channel_id |-> "UC", total_videos |-> 1, last_updated |-> 0],
             videos |-> <<StoreVideo(4, Str(Ymd(2019, 2, 28)))>>]
StoreCatalogues == {CatA, CatB, CatEmpty}

\* The video source: entries and the pages it may serve.
Published(y, m, d) ==
    Ymd(y, m, d) \o <<84>> \o Pad2(10) \o <<Colon>> \o Pad2(0) \o <<Colon>> \o Pad2(0) \o <<90>>
EntryTrip == Entry(1, <<Text("Road Trip - "), Num(3, 14, 2019)>>, Published(2021, 3, 20))
EntryFun == Entry(2, <<Text("Just a fun day!")>>, Published(2020, 3, 14))
EntryPrivate == Entry(3, PrivateTitle, Published(2020, 5, 1))
EntryDeleted == Entry(4, DeletedTitle, Published(2020, 5, 2))
EntryAgain == Entry(1, <<Num(14, 3, 2018)>>, Published(2022, 1, 4))
Pages ==
    { <<>>, <<EntryTrip>>, <<EntryPrivate, EntryFun>>, <<EntryDeleted, EntryAgain>> }

StrictConfig(fallback) ==
    [title_patterns |-> << <<Lit("Road Trip - "), Dir("mdY")>> >>,
     use_upload_date_fallback |-> fallback, fuzzy_enabled |-> TRUE]
SystemConfigs == {StrictConfig("true"), StrictConfig("false"), NoConfig}

SystemQueries == { <<3, 14>>, <<1, 4>> }

\* Publish runs: the feature switches ("missing" when the key is not set), today,
\* the playlist at the hosting service with items an earlier run left (video 1 is
\* one of today's, video 9 is not), and the catalogue file on disk.
FeatureSets ==
    [dry_run : {"true", "false", "missing"},
     create_playlist : {"true", "false", "missing"},
     post_to_reddit : {"true", "false", "missing"}]
PublishDays == { <<1, 4>>, <<2, 28>>, <<3, 1>> }
Leftovers == SeqsUpTo({1, 9}, MaxLeftover)
Remotes ==
    {NoRemote} \cup
    {[exists |-> TRUE, listed |-> l, items |-> it, posts |-> 0] :
        l \in BOOLEAN, it \in Leftovers}
CatToday == [channel_info |-> [channel_id |-> "UC", total_videos |-> 4, last_updated |-> 0],
             videos |-> <<StoreVideo(2, Str(Ymd(2022, 1, 4))), StoreVideo(1, Str(Ymd(2020, 1, 4))),
                          StoreVideo(3, Str(Ymd(2019, 2, 28))), StoreVideo(4, Str(Ymd(2021, 1, 4)))>>]
CatNumber == [channel_info |-> [channel_id |-> "UC", total_videos |-> 1, last_updated |-> 0],
              videos |-> <<StoreVideo(1, Number(20200104))>>]
PublishFiles ==
    {NoFile, File(SubSeq(json_dump(CatToday), 1, 2)), File(json_dump(CatEmpty)),
     File(json_dump(CatToday)), File(json_dump(CatNumber))}

(***************************************************************************)
(* The date extractor applied to every title and configuration.            *)
(***************************************************************************)
InitExtract ==
    /\ title \in Titles
    /\ config \in {c \in Configs : c.use_upload_date_fallback = "missing"}
    /\ extracted = NotExtracted
    /\ MatchUnused /\ StoreUnused /\ FetchUnused /\ PublishUnused

Extract ==
    /\ ~extracted.done
    /\ extracted' = [done |-> TRUE,
                     date |-> parse_date_from_title(title, config).date,
                     fuzzy |-> parse_date_from_title(title, config).fuzzy]
    /\ UNCHANGED <<title, config, matchVars, storeVars, fetchVars, qrun, publishVars>>

SpecExtract == InitExtract /\ [][Extract]_vars

(***************************************************************************)
(* The calendar matcher applied to every catalogue and query.              *)
(***************************************************************************)
InitMatch ==
    /\ videos_db \in Catalogues
    /\ \E q \in Queries : month = q[1] /\ day = q[2]
    /\ matching = NotMatched
    /\ ExtractUnused /\ StoreUnused /\ FetchUnused /\ PublishUnused

Match ==
    /\ ~matching.done
    /\ matching' = [done |-> TRUE,
                    raised |-> get_videos_for_date(videos_db, month, day).raised,
                    videos |-> get_videos_for_date(videos_db, month, day).videos]
    /\ UNCHANGED <<extractVars, videos_db, month, day, storeVars, fetchVars, qrun,
                   publishVars>>

SpecMatch == InitMatch /\ [][Match]_vars

(***************************************************************************)
(* The catalogue store under any sequence of calls, from any storage       *)
(* state: no file, a file a killed save left cut off, or a saved catalogue.*)
(***************************************************************************)
InitStore ==
    /\ primary \in {NoFile, File(<<>>), File(SubSeq(json_dump(CatOld), 1, 2)),
                    File(json_dump(CatOld))}
    /\ backup \in {NoFile, File(json_dump(CatOlder))}
    /\ wpc = "idle" /\ wdata = NoSave /\ now = 1 /\ hist = <<>>
    /\ ExtractUnused /\ MatchUnused /\ FetchUnused /\ PublishUnused

NextStore ==
    \/ \E data \in StoreCatalogues : SaveOpen(data) /\ UNCHANGED <<extractVars, matchVars, fetchVars, qrun, publishVars>>
    \/ SaveFlush /\ UNCHANGED <<extractVars, matchVars, fetchVars, qrun, publishVars>>
    \/ SaveClose /\ UNCHANGED <<extractVars, matchVars, fetchVars, qrun, publishVars>>
    \/ Load /\ UNCHANGED <<extractVars, matchVars, fetchVars, qrun, publishVars>>
    \/ CreateBackup /\ UNCHANGED <<extractVars, matchVars, fetchVars, qrun, publishVars>>

SpecStore == InitStore /\ [][NextStore]_vars


(***************************************************************************)
(* The program: ingestion runs and query runs over the catalogue files,    *)
(* from any storage state.                                                 *)
(***************************************************************************)
Init ==
    /\ config \in SystemConfigs
    /\ primary \in {NoFile, File(SubSeq(json_dump(CatOld), 1, 2)), File(json_dump(CatOld))}
    /\ backup \in {NoFile, File(json_dump(CatOlder))}
    /\ wpc = "idle" /\ wdata = NoSave /\ now = 1 /\ hist = <<>>
    /\ title = <<>> /\ extracted = NotExtracted
    /\ MatchUnused /\ FetchUnused /\ PublishUnused

Next ==
    \/ FetchStart /\ UNCHANGED <<extractVars, matchVars, publishVars>>
    \/ \E items \in Pages, more \in BOOLEAN :
          FetchPage(items, more) /\ UNCHANGED <<extractVars, matchVars, publishVars>>
    \/ FetchHttpError /\ UNCHANGED <<extractVars, matchVars, publishVars>>
    \/ MainBackup /\ UNCHANGED <<extractVars, matchVars, publishVars>>
    \/ MainSaveOpen /\ UNCHANGED <<extractVars, matchVars, publishVars>>
    \/ MainSaveFlush /\ UNCHANGED <<extractVars, matchVars, publishVars>>
    \/ MainSaveClose /\ UNCHANGED <<extractVars, matchVars, publishVars>>
    \/ \E kind \in {"update_playlist", "post_to_reddit"}, q \in SystemQueries :
          QueryRun(kind, q[1], q[2]) /\ UNCHANGED <<extractVars, matchVars, publishVars>>

Spec == Init /\ [][Next]_vars


(***************************************************************************)
(* add_videos_to_playlist applied to every list of video ids, over any     *)
(* playlist, with any outcome of each insert.                              *)
(***************************************************************************)
InitAdd ==
    /\ features = NoFeatures /\ today = <<1, 1>>
    /\ remote \in {[exists |-> TRUE, listed |-> TRUE, items |-> it, posts |-> 0] :
                      it \in Leftovers}
    /\ calls = <<>>
    /\ pub \in {[NoPub EXCEPT !.kind = "add_videos_to_playlist", !.pc = "add",
                              !.video_ids = ids] : ids \in SeqsUpTo({1, 2}, MaxIds)}
    /\ ExtractUnused /\ MatchUnused /\ StoreUnused /\ FetchUnused

NextAdd ==
    \/ \E ok \in BOOLEAN :
          AddVideo(ok) /\ UNCHANGED <<extractVars, matchVars, storeVars, fetchVars, qrun>>
    \/ AddReturn /\ UNCHANGED <<extractVars, matchVars, storeVars, fetchVars, qrun>>

SpecAdd == InitAdd /\ [][NextAdd]_vars

(***************************************************************************)
(* One publish run, of either script, over any catalogue file, any feature *)
(* switches, any day and any playlist an earlier run left.                 *)
(***************************************************************************)
InitPublish ==
    /\ features \in FeatureSets
    /\ today \in PublishDays
    /\ remote \in Remotes
    /\ calls = <<>> /\ pub = NoPub
    /\ primary \in PublishFiles
    /\ backup = NoFile /\ wpc = "idle" /\ wdata = NoSave /\ now = 1 /\ hist = <<>>
    /\ ExtractUnused /\ MatchUnused /\ FetchUnused

NextPublish ==
    \/ UpdateStart /\ UNCHANGED <<extractVars, matchVars, storeVars, fetchVars, qrun>>
    \/ \E ok \in BOOLEAN :
          Authenticate(ok) /\ UNCHANGED <<extractVars, matchVars, storeVars, fetchVars, qrun>>
    \/ \E out \in {"ok", "list_error", "insert_error"} :
          find_or_create_playlist(out)
          /\ UNCHANGED <<extractVars, matchVars, storeVars, fetchVars, qrun>>
    \/ \E ok \in BOOLEAN :
          ClearList(ok) /\ UNCHANGED <<extractVars, matchVars, storeVars, fetchVars, qrun>>
    \/ \E ok \in BOOLEAN :
          ClearDelete(ok) /\ UNCHANGED <<extractVars, matchVars, storeVars, fetchVars, qrun>>
    \/ \E ok \in BOOLEAN :
          AddVideo(ok) /\ UNCHANGED <<extractVars, matchVars, storeVars, fetchVars, qrun>>
    \/ AddReturn /\ UNCHANGED <<extractVars, matchVars, storeVars, fetchVars, qrun>>
    \/ PostStart /\ UNCHANGED <<extractVars, matchVars, storeVars, fetchVars, qrun>>
    \/ \E ok \in BOOLEAN :
          RedditAuth(ok) /\ UNCHANGED <<extractVars, matchVars, storeVars, fetchVars, qrun>>
    \/ \E ok \in BOOLEAN :
          create_reddit_post(ok)
          /\ UNCHANGED <<extractVars, matchVars, storeVars, fetchVars, qrun>>

SpecPublish == InitPublish /\ [][NextPublish]_vars


(***************************************************************************)
(* Properties of the calendar matcher (under SpecMatch).                   *)
(***************************************************************************)
DateLeq(d1, d2) ==
    \/ d1.year < d2.year
    \/ d1.year = d2.year /\ d1.month < d2.month
    \/ d1.year = d2.year /\ d1.month = d2.month /\ d1.day <= d2.day

ResultDate(i) == fromisoformat(matching.videos[i].recording_date.s)

\* C1: get_videos_for_date returns only records of the catalogue whose
\* recording_date has exactly the queried month and day, sorted non-decreasing by
\* recording_date compared as a calendar date.
C1_OnlyQueriedDaySorted ==
    matching.done =>
        /\ \A i \in 1..Len(matching.videos) :
              /\ \E j \in 1..Len(videos_db.videos) : videos_db.videos[j] = matching.videos[i]
              /\ ResultDate(i).ok
              /\ ResultDate(i).month = month
              /\ ResultDate(i).day = day
        /\ \A i, j \in 1..Len(matching.videos) :
              i < j => DateLeq(ResultDate(i), ResultDate(j))

\* C1 witness: a Feb 29 query over a catalogue that holds a Feb 28 and a Mar 1
\* record returns the Feb 29 record alone.
C1_Witness ==
    /\ matching.done /\ month = 2 /\ day = 29
    /\ \E i, j, l \in 1..Len(videos_db.videos) :
          /\ videos_db.videos[i].recording_date = Str(Ymd(2019, 2, 28))
          /\ videos_db.videos[j].recording_date = Str(Ymd(2021, 3, 1))
          /\ videos_db.videos[l].recording_date = Str(Ymd(2020, 2, 29))
    /\ Len(matching.videos) = 1
    /\ matching.videos[1].recording_date = Str(Ymd(2020, 2, 29))

\* The stored recording_date of a record is malformed: absent, empty, not an ISO
\* date, or not a string at all.
Malformed(video) ==
    \/ video.recording_date.t # "str"
    \/ ~fromisoformat(video.recording_date.s).ok

WellFormedMatch(video) ==
    /\ ~Malformed(video)
    /\ fromisoformat(video.recording_date.s).month = month
    /\ fromisoformat(video.recording_date.s).day = day

\* C11: for every catalogue, records with a malformed stored recording_date
\* included, get_videos_for_date does not raise, returns no malformed record and
\* returns every well-formed record of the queried month and day.
C11_MalformedDateNeverRaises ==
    matching.done =>
        /\ ~matching.raised
        /\ \A i \in 1..Len(matching.videos) : ~Malformed(matching.videos[i])
        /\ \A j \in 1..Len(videos_db.videos) :
              WellFormedMatch(videos_db.videos[j]) =>
                  \E i \in 1..Len(matching.videos) : matching.videos[i] = videos_db.videos[j]

(***************************************************************************)
(* Properties of the date extractor (under SpecExtract).                   *)
(***************************************************************************)
StrictMatches == {i \in 1..Len(config.title_patterns) :
                     strptime(title, config.title_patterns[i]).ok}

FirstStrictMatch == CHOOSE i \in StrictMatches : \A j \in StrictMatches : i <= j

\* C7: with fuzzy extraction disabled, a title that no strict pattern parses
\* yields absent (None), also when it holds a date-like substring.
C7_FuzzyOnlyWhenEnabled ==
    (extracted.done /\ ~config.fuzzy_enabled /\ StrictMatches = {}) =>
        ~extracted.date.ok

\* C8: when some strict pattern parses the whole title, the result is the date of
\* the first such pattern in configured order and the fuzzy scan is not consulted.
C8_FirstStrictPatternWins ==
    (extracted.done /\ StrictMatches # {}) =>
        /\ extracted.date = strptime(title, config.title_patterns[FirstStrictMatch])
        /\ ~extracted.fuzzy

\* C8 witness: "3/4/2019" under [dmY, mdY]: both patterns parse, to different
\* dates, the fuzzy scan would read March 4, and the result is April 3.
C8_Witness ==
    /\ extracted.done
    /\ title = <<Num(3, 4, 2019)>>
    /\ config.title_patterns = << <<Dir("dmY")>>, <<Dir("mdY")>> >>
    /\ fuzzy_parse(title) = Date(2019, 3, 4)
    /\ extracted.date = Date(2019, 4, 3)

(***************************************************************************)
(* Properties of the catalogue store (under SpecStore).                    *)
(***************************************************************************)
\* The text a completed save of hist[n] wrote: its argument, stamped.
SameButTimestamp(ci1, ci2) ==
    [ci1 EXCEPT !.last_updated = 0] = [ci2 EXCEPT !.last_updated = 0]

\* C2: after save(A) then save(B) in succession, the backup file exists and holds
\* what the first save wrote (the file the second save replaced), and the primary
\* file holds B.
C2_SecondSaveBacksUpFirst ==
    \A n \in 2..Len(hist) :
        (n = Len(hist) /\ wpc = "idle" /\ hist[n].op = "save" /\ hist[n - 1].op = "save") =>
            /\ backup.exists
            /\ backup = hist[n].seen
            /\ json_load(primary.text).ok
            /\ json_load(primary.text).data.videos = hist[n].arg.videos

\* C3: a load that runs while a save is writing reads either the complete prior
\* file or the complete new text, never an empty or cut-off file.
C3_ReaderSeesOldOrNew ==
    \A n \in 1..Len(hist) :
        (hist[n].op = "load" /\ hist[n].conc) =>
            (hist[n].seen = hist[n].old \/ hist[n].seen = hist[n].new)

\* C5: a load right after a completed save(C), nothing written in between, returns
\* C's videos, same length, same order, and C's channel_info but for last_updated.
C5_SaveThenLoad ==
    \A n \in 2..Len(hist) :
        (hist[n].op = "load" /\ ~hist[n].conc /\ hist[n - 1].op = "save") =>
            /\ ~hist[n].raised
            /\ Len(hist[n].data.videos) = Len(hist[n - 1].arg.videos)
            /\ \A i \in 1..Len(hist[n].data.videos) :
                  hist[n].data.videos[i] = hist[n - 1].arg.videos[i]
            /\ SameButTimestamp(hist[n].data.channel_info, hist[n - 1].arg.channel_info)

\* C5 witness: a two-video catalogue saved over an older file and loaded back with
\* a new last_updated.
C5_Witness ==
    \E n \in 2..Len(hist) :
        /\ hist[n].op = "load" /\ ~hist[n].conc
        /\ hist[n - 1].op = "save" /\ hist[n - 1].arg = CatB /\ hist[n - 1].seen.exists
        /\ hist[n].data.videos = CatB.videos
        /\ hist[n].data.channel_info.last_updated # CatB.channel_info.last_updated

\* C6: a load that finds no catalogue file does not raise and returns an empty
\* videos sequence with the placeholder channel_info.
C6_LoadWithoutFile ==
    \A n \in 1..Len(hist) :
        (hist[n].op = "load" /\ ~hist[n].seen.exists) =>
            /\ ~hist[n].raised
            /\ hist[n].data.videos = <<>>
            /\ hist[n].data.channel_info = Placeholder

\* C6 witness: a first-run load, no file on disk, returned without raising.
C6_Witness ==
    \E n \in 1..Len(hist) :
        /\ hist[n].op = "load" /\ ~hist[n].seen.exists /\ ~primary.exists
        /\ ~hist[n].raised /\ hist[n].data.videos = <<>>

(***************************************************************************)
(* Properties of ingestion and the runs (under Spec).                      *)
(***************************************************************************)
Unparseable(f) == f.exists /\ ~json_load(f.text).ok

RunSaved == fpc = "idle" /\ run.exit = "ok"

NotRemoved(item) == item.title # PrivateTitle /\ item.title # DeletedTitle

\* The entries delivered in this run that are real content, in delivery order.
Kept == SelectSeq(delivered, NotRemoved)

SavedCatalogue == json_load(primary.text).data

\* C4: a run that finds a catalogue file it cannot parse aborts with an error and
\* leaves the primary file as it found it: an ingestion run neither overwrites it
\* nor ends with success, and a query run ends with an error.
C4_UnparseableCatalogueAborts ==
    /\ (run.n > 0 /\ Unparseable(run.start)) => (primary = run.start /\ run.exit # "ok")
    /\ (qrun.kind # "none" /\ Unparseable(qrun.seen)) => qrun.exit = "error"

\* C9: the record of every delivered non-sentinel entry carries the extracted date
\* when extraction succeeds, else the entry's upload date when the fallback is
\* enabled (set, or left at its default), else no recording_date; a record without
\* one is in the saved catalogue and no day query returns it.
C9_RecordingDateChain ==
    /\ Len(videos) = Len(Kept)
    /\ \A i \in 1..Len(videos) :
          LET ex == parse_date_from_title(Kept[i].title, config).date
              enabled == config.use_upload_date_fallback \in {"true", "missing"}
          IN  /\ videos[i].upload_date = Str(Slice(Kept[i].publishedAt, 10))
              /\ ex.ok => videos[i].recording_date = Str(strftime_Ymd(ex))
              /\ (~ex.ok /\ enabled) => videos[i].recording_date = videos[i].upload_date
              /\ (~ex.ok /\ ~enabled) => videos[i].recording_date = None
    /\ RunSaved =>
          \A i \in 1..Len(videos) :
              videos[i].recording_date = None =>
                  /\ \E j \in 1..Len(SavedCatalogue.videos) : SavedCatalogue.videos[j] = videos[i]
                  /\ \A m \in 1..12, d \in 1..31 :
                        \A l \in 1..Len(get_videos_for_date(SavedCatalogue, m, d).videos) :
                            get_videos_for_date(SavedCatalogue, m, d).videos[l] # videos[i]

\* C9 witness: with the fallback off, a saved run kept an undated record next to
\* one whose date came from its title.
C9_Witness ==
    /\ RunSaved /\ config.use_upload_date_fallback = "false"
    /\ \E i, j \in 1..Len(SavedCatalogue.videos) :
          /\ SavedCatalogue.videos[i].recording_date = None
          /\ SavedCatalogue.videos[i].title = EntryFun.title
          /\ SavedCatalogue.videos[j].recording_date = Str(Ymd(2019, 3, 14))
          /\ SavedCatalogue.videos[j].upload_date = Str(Ymd(2021, 3, 20))

\* C10: the videos ingestion produces are the delivered entries without those
\* titled "Private video" or "Deleted video", one record each, in delivery order;
\* the saved catalogue holds exactly them and total_videos counts exactly them.
C10_SentinelsDroppedOrderKept ==
    /\ Len(videos) = Len(Kept)
    /\ \A i \in 1..Len(videos) :
          videos[i].video_id = Kept[i].id /\ videos[i].title = Kept[i].title
    /\ RunSaved =>
          /\ SavedCatalogue.videos = videos
          /\ \A j \in 1..Len(SavedCatalogue.videos) :
                SavedCatalogue.videos[j].title \notin {PrivateTitle, DeletedTitle}
          /\ SavedCatalogue.channel_info.total_videos = Len(Kept)

\* C10 witness: two pages, each a removed entry followed by a real one, were saved
\* as the two real ones in page order.
C10_Witness ==
    /\ RunSaved /\ page_count = 2 /\ ~errored
    /\ delivered = <<EntryPrivate, EntryFun, EntryDeleted, EntryAgain>>
    /\ Len(SavedCatalogue.videos) = 2
    /\ SavedCatalogue.videos[1].video_id = EntryFun.id
    /\ SavedCatalogue.videos[2].video_id = EntryAgain.id
    /\ SavedCatalogue.channel_info.total_videos = 2

\* C12: an ingestion run in which the video source failed on a page does not end
\* silently: it exits with a failure and leaves the persisted catalogue as it was
\* at the start of the run, not replaced by the videos fetched before the failure.
C12_SourceFailureFailsRun ==
    (errored /\ fpc = "idle") => (run.exit # "ok" /\ primary = run.start)

\* The video_ids of the records of a catalogue, in order.
VideoIds(db) == [i \in 1..Len(db.videos) |-> db.videos[i].video_id]

NoDuplicates(ids) == \A i, j \in 1..Len(ids) : ids[i] = ids[j] => i = j

\* C14: whatever pages the video source served, the catalogue a completed
\* ingestion run leaves on disk holds no two records with the same video_id.
C14_PersistedIdsUnique ==
    RunSaved => NoDuplicates(VideoIds(SavedCatalogue))

\* C15: in an ingestion run that found a primary catalogue file, the backup holds
\* the content found from the moment the primary file is opened for writing, and
\* after the run the backup is the content that was on disk before the run's write;
\* the primary file then holds the run's videos and nothing else: one record per
\* entry this run kept, none carried over from the earlier content.
C15_BackupBeforeWriteFullReplace ==
    /\ (run.start.exists /\ (fpc = "saving" \/ RunSaved)) => backup = run.start
    /\ RunSaved =>
          /\ SavedCatalogue.videos = videos
          /\ Len(SavedCatalogue.videos) = Len(Kept)
          /\ \A i \in 1..Len(SavedCatalogue.videos) :
                SavedCatalogue.videos[i].video_id = Kept[i].id

\* C15 witness: a run over an existing catalogue completed; the backup is the
\* catalogue found, and the primary file holds two records of this run and not the
\* record found.
C15_Witness ==
    /\ RunSaved
    /\ run.start = File(json_dump(CatOld))
    /\ backup = File(json_dump(CatOld))
    /\ Len(SavedCatalogue.videos) = 2
    /\ \A i \in 1..Len(SavedCatalogue.videos) :
          SavedCatalogue.videos[i].video_id # CatOld.videos[1].video_id

(***************************************************************************)
(* Properties of add_videos_to_playlist (under SpecAdd).                   *)
(***************************************************************************)
IsInsert(c) == c.op = "playlistItems.insert"
Inserts == SelectSeq(calls, IsInsert)

\* C13: add_videos_to_playlist attempts the ids of its list once each, in list
\* order; a failed insert does not keep the later ids from being attempted, so that
\* on return every id has been attempted; and the count it returns is the number
\* of inserts that succeeded.
C13_EachIdOnceInOrderCountSucceeded ==
    /\ Len(Inserts) <= Len(pub.video_ids)
    /\ \A k \in 1..Len(Inserts) : Inserts[k].arg = pub.video_ids[k]
    /\ pub.added = Cardinality({k \in 1..Len(Inserts) : Inserts[k].ok})
    /\ pub.pc = "done" => Len(Inserts) = Len(pub.video_ids)

\* C13 witness: of three ids the second insert failed; the third was still
\* attempted and the call returned 2.
C13_Witness ==
    /\ pub.pc = "done" /\ Len(pub.video_ids) = 3 /\ Len(Inserts) = 3
    /\ Inserts[1].ok /\ ~Inserts[2].ok /\ Inserts[3].ok
    /\ pub.added = 2

(***************************************************************************)
(* Properties of the publish runs (under SpecPublish).                     *)
(***************************************************************************)
\* C16: with features.dry_run true, a publish run makes no external call: no
\* authentication, no playlist create, delete or insert, no post; and with an
\* empty catalogue or no video matching today it makes no external call either,
\* whatever the switches.  The playlist and the posts stay as they were.
C16_DryRunOrNothingTodayNoExternalCall ==
    (features.dry_run = "true" \/ TodayOutcome(primary, today) = "nothing") =>
        /\ calls = <<>>
        /\ remote.posts = 0

\* C16 witness: a dry run of the playlist update found videos for today and ended
\* without a call.
C16_Witness ==
    /\ features.dry_run = "true"
    /\ pub.kind = "update_playlist" /\ pub.pc = "done" /\ pub.exit = "ok"
    /\ Len(pub.today_videos) = 3
    /\ calls = <<>>

IsClear(c) == c.op \in {"playlistItems.list", "playlistItems.delete"}

\* C17: in a playlist update that is not a dry run, every call of the clear step
\* precedes the first insert, and when the run has completed with every insert
\* succeeded the playlist holds exactly the video ids of today's matched records,
\* in the matcher's order, and nothing an earlier run left, also when the clear
\* step met an error of the hosting service.
C17_PlaylistIsExactlyTodaysVideos ==
    /\ \A j, k \in 1..Len(calls) : (IsClear(calls[j]) /\ IsInsert(calls[k])) => j < k
    /\ (/\ pub.kind = "update_playlist" /\ pub.pc = "done" /\ pub.exit = "ok"
        /\ pub.video_ids # <<>> /\ pub.added = Len(pub.video_ids)) =>
          /\ pub.video_ids = [k \in 1..Len(TodayVideos(primary, today)) |->
                                 TodayVideos(primary, today)[k].video_id]
          /\ remote.items = pub.video_ids


====
